---- MODULE Spec2Model ----
(***************************************************************************)
(* The trace scheduler of bril-ts/dataflow.ts (the Group-producing         *)
(* variant, lines 1-224): dataflow builds the dependence graph of a        *)
(* trace, assignDagPriority labels it with heights, listSchedule packs     *)
(* the nodes into bundles and toGroup turns every bundle into a Group.     *)
(*                                                                         *)
(* A node is identified by the position of the loop iteration of dataflow  *)
(* that created it (1..Len(trace)); the start node is Start.  A JavaScript *)
(* Set is a sequence without repetition, because the code iterates Sets    *)
(* in insertion order.  A Map is a function whose DOMAIN is its key set.   *)
(***************************************************************************)
EXTENDS Integers, Sequences, FiniteSets, TLC

\* Longest trace explored.
MaxLen == 3

\* Identifiers that occur in the explored traces.
Idents == {"x", "y"}

\* bril.Constant (value and type play no part in scheduling).
Constants == {[op |-> "const", dest |-> d] : d \in Idents}

\* bril.ValueOperation: a copy of x to y, and the copy of x onto itself (an
\* instruction that reads its own destination).
ValueOperations ==
    {[op |-> "id", args |-> <<"x">>, dest |-> d] : d \in Idents}

\* bril.EffectOperation, with one argument and with two.
EffectOperations == {[op |-> "print", args |-> as] : as \in {<<"x">>, <<"x", "y">>}}

\* The guard form read by toGroup: op 'trace' wrapping an effect.
Guards ==
    {[op |-> "trace", effect |-> [op |-> "br", args |-> <<"x">>], failLabel |-> "fail"]}

\* bril.Group, the already-bundled instruction.
Groups == {[conds |-> <<>>, instrs |-> <<>>, failLabel |-> ""]}

\* bril.Instruction.
Instructions == Constants \cup ValueOperations \cup EffectOperations \cup Guards \cup Groups

\* The start node's identity.
Start == 0

VARIABLES
    trace,        \* dataflow's argument instrs
    dag,          \* the node the caller hands to assignDagPriority
    i,            \* number of iterations of dataflow's loop completed
    startSuccs,   \* startNode.succs
    succs,        \* succs[n]: node n's succs
    preds,        \* preds[n]: node n's preds
    priority,     \* node |-> priority, for the nodes whose priority is defined
    written,      \* dataflow's map written
    read,         \* dataflow's map read
    stack,        \* the activations of assignDagPriority
    queue,        \* listSchedule's queue.t
    scheduled,    \* listSchedule's scheduled
    toUpdate,     \* listSchedule's toUpdate
    currentGroup, \* listSchedule's currentGroup (the nodes whose instr it holds)
    schedule,     \* listSchedule's schedule
    valid,        \* the caller's validity predicate
    commitLog,    \* history: every push to currentGroup, with the bundle's index
    thrown,       \* the exception that ended the run, "" if none
    pc            \* the caller's position in the pipeline

vars == <<trace, dag, i, startSuccs, succs, preds, priority, written, read, stack,
          queue, scheduled, toUpdate, currentGroup, schedule, valid,
          commitLog, thrown, pc>>

----------------------------------------------------------------------------
\* Helpers for Sets and Maps.

Range(s) == {s[k] : k \in 1..Len(s)}

\* Set.add: an element already present keeps its place.
SetAdd(s, e) == IF e \in Range(s) THEN s ELSE Append(s, e)

RECURSIVE SetAddAll(_, _)
SetAddAll(s, items) ==
    IF items = <<>> THEN s ELSE SetAddAll(SetAdd(s, Head(items)), Tail(items))

\* Map.set.
MapSet(m, k, v) == [q \in DOMAIN m \cup {k} |-> IF q = k THEN v ELSE m[q]]

\* A slip for Math.max: the later value wins.
MathMaxLast(a, b) == b

\* Math.max.
MathMax(a, b) == IF a >= b THEN a ELSE b

HasDest(instr) == "dest" \in DOMAIN instr
HasArgs(instr) == "args" \in DOMAIN instr
IsGroup(instr) == "conds" \in DOMAIN instr

Nodes == 1..Len(trace)

----------------------------------------------------------------------------
\* dataflow (lines 163-224).

\* A slip for line 193: only a node with a destination is registered.
RegisterNodeIfDest(ss, n, instr) == IF HasDest(instr) THEN SetAdd(ss, n) ELSE ss

\* Line 193: the node of iteration n is registered under the start node.
RegisterNode(ss, n, instr) == SetAdd(ss, n)

\* Lines 197-203: the nodes that get an edge to the node of a writing
\* instruction, the recorded readers of its destination.
AntiParents(rd, instr) ==
    IF HasDest(instr) /\ instr.dest \in DOMAIN rd THEN rd[instr.dest] ELSE <<>>

\* Line 206: the writer map once the instruction's destination is recorded,
\* which happens before its arguments are looked up.
WrittenAfter(wr, instr, n) ==
    IF HasDest(instr) THEN MapSet(wr, instr.dest, n) ELSE wr

\* Lines 211-217: the recorded writer of each argument, in argument order.
RECURSIVE WritersOf(_, _)
WritersOf(wr, args) ==
    IF args = <<>> THEN <<>>
    ELSE (IF Head(args) \in DOMAIN wr THEN <<wr[Head(args)]>> ELSE <<>>)
         \o WritersOf(wr, Tail(args))

TrueParents(wr, instr) == IF HasArgs(instr) THEN WritersOf(wr, instr.args) ELSE <<>>

\* A slip for addRead: the reader replaces the recorded readers.
addReadLatest(rd, ident, n) == MapSet(rd, ident, <<n>>)

\* addRead (lines 167-174).
addRead(rd, ident, n) ==
    MapSet(rd, ident, SetAdd(IF ident \in DOMAIN rd THEN rd[ident] ELSE <<>>, n))

\* Line 219 over the loop of line 211.
RECURSIVE AddReads(_, _, _)
AddReads(rd, args, n) ==
    IF args = <<>> THEN rd ELSE AddReads(addRead(rd, Head(args), n), Tail(args), n)

ReadAfter(rd, instr, n) == IF HasArgs(instr) THEN AddReads(rd, instr.args, n) ELSE rd

\* One iteration of the loop of lines 182-222, for the instruction at i + 1.
DataflowStep ==
    /\ pc = "dataflow"
    /\ i < Len(trace)
    /\ LET n == i + 1
           instr == trace[n]
           wr == WrittenAfter(written, instr, n)
           parents == AntiParents(read, instr) \o TrueParents(wr, instr)
       IN /\ startSuccs' = RegisterNode(startSuccs, n, instr)
          /\ preds' = [preds EXCEPT ![n] = SetAddAll(@, parents)]
          /\ succs' = [m \in DOMAIN succs |->
                          IF m \in Range(parents) THEN SetAdd(succs[m], n) ELSE succs[m]]
          /\ written' = wr
          /\ read' = ReadAfter(read, instr, n)
          /\ i' = n
    /\ UNCHANGED <<trace, dag, priority, stack, queue, scheduled, toUpdate,
                   currentGroup, schedule, valid, commitLog, thrown, pc>>

\* Line 223: the loop is over and the start node is returned.
DataflowReturn ==
    /\ pc = "dataflow"
    /\ i = Len(trace)
    /\ pc' = "built"
    /\ UNCHANGED <<trace, dag, i, startSuccs, succs, preds, priority, written, read,
                   stack, queue, scheduled, toUpdate, currentGroup, schedule,
                   valid, commitLog, thrown>>

----------------------------------------------------------------------------
\* assignDagPriority (lines 154-161), one activation record per call.

\* dag.succs of line 156.
SuccsOf(n) == IF n = Start THEN startSuccs ELSE succs[n]

\* The deepest recursion the explored graphs need when they are acyclic:
\* one activation for the start node and one per instruction.  A call that
\* would go deeper never returns: the engine ends it with a RangeError.
StackLimit == MaxLen + 1

RangeError == "RangeError: Maximum call stack size exceeded"

Frame(n) == [node |-> n, idx |-> 1, maxDepth |-> 0]

Top == stack[Len(stack)]

\* Lines 159-160: the value assigned to dag.priority and returned.
ReturnedPriority(maxDepth) == maxDepth + 1

\* The caller runs assignDagPriority on a node of the graph: the start node
\* in the pipeline, any node for the priorities of a part of the graph.
AssignDagPriorityCall ==
    /\ pc = "built"
    /\ stack' = <<Frame(dag)>>
    /\ pc' = "priority"
    /\ UNCHANGED <<trace, dag, i, startSuccs, succs, preds, priority, written, read,
                   queue, scheduled, toUpdate, currentGroup, schedule, valid,
                   commitLog, thrown>>

\* Lines 156-157: the recursive call for the next successor.
AssignDagPriorityDescend ==
    /\ pc = "priority"
    /\ Top.idx <= Len(SuccsOf(Top.node))
    /\ IF Len(stack) >= StackLimit
       THEN /\ thrown' = RangeError
            /\ pc' = "error"
            /\ UNCHANGED stack
       ELSE /\ stack' = Append(stack, Frame(SuccsOf(Top.node)[Top.idx]))
            /\ UNCHANGED <<thrown, pc>>
    /\ UNCHANGED <<trace, dag, i, startSuccs, succs, preds, priority, written, read,
                   queue, scheduled, toUpdate, currentGroup, schedule, valid,
                   commitLog>>

\* Lines 159-160, and line 157 in the caller's activation.
AssignDagPriorityReturn ==
    /\ pc = "priority"
    /\ Top.idx > Len(SuccsOf(Top.node))
    /\ LET ret == ReturnedPriority(Top.maxDepth)
           rest == SubSeq(stack, 1, Len(stack) - 1)
       IN /\ priority' = MapSet(priority, Top.node, ret)
          /\ IF rest = <<>>
             THEN /\ stack' = rest
                  /\ pc' = "prioritised"
             ELSE /\ stack' = [rest EXCEPT ![Len(rest)] =
                                  [@ EXCEPT !.maxDepth = MathMax(@, ret), !.idx = @ + 1]]
                  /\ UNCHANGED pc
    /\ UNCHANGED <<trace, dag, i, startSuccs, succs, preds, written, read, queue,
                   scheduled, toUpdate, currentGroup, schedule, valid,
                   commitLog, thrown>>

----------------------------------------------------------------------------
\* PQueue, subset, nodeCompare, toGroup (lines 13-97).

HasPriority(n) == n \in DOMAIN priority

\* A slip for nodeCompare: the comparison of the file's other variant.
nodeCompareGreater(t1, t2) ==
    IF t1 \in DOMAIN priority /\ t2 \in DOMAIN priority
    THEN priority[t1] > priority[t2]
    ELSE t1 \in DOMAIN priority

\* nodeCompare (lines 55-60).  A defined priority is at least 1, so it is truthy.
nodeCompare(t1, t2) ==
    IF HasPriority(t1) /\ HasPriority(t2)
    THEN priority[t1] < priority[t2]
    ELSE HasPriority(t1)

\* The loop of PQueue.next (lines 28-36) over the items from position k on.
RECURSIVE Best(_, _, _)
Best(q, k, best) ==
    IF k > Len(q) THEN best
    ELSE Best(q, k + 1, IF nodeCompare(best, q[k]) THEN q[k] ELSE best)

\* PQueue.next (lines 27-39) on a non-empty queue: the node it returns.
PQNext(q) == Best(q, 2, q[1])

\* Set.delete.
SetDelete(s, e) == SelectSeq(s, LAMBDA m : m # e)

\* A slip for subset: every set passes.
subsetAlways(s1, s2) == TRUE

\* subset (lines 45-53).
subset(s1, s2) == \A e \in Range(s1) : e \in s2

\* A slip for line 73: the test is left out.
HasNestedNever(bundle) == FALSE

\* Line 73: the bundle holds a Group.
HasNested(bundle) == \E k \in 1..Len(bundle) : IsGroup(trace[bundle[k]])

IsGuard(instr) == ~IsGroup(instr) /\ instr.op = "trace"

\* Lines 74-79: the conditions pushed by the guards of the bundle.
RECURSIVE CondsOf(_)
CondsOf(bundle) ==
    IF bundle = <<>> THEN <<>>
    ELSE LET instr == trace[Head(bundle)]
         IN (IF IsGuard(instr) /\ instr.effect.op = "br"
             THEN <<instr.effect.args[1]>> ELSE <<>>) \o CondsOf(Tail(bundle))

\* Lines 69 and 80: the fail label of the last guard, "" if there is none.
RECURSIVE FailLabelOf(_, _)
FailLabelOf(bundle, label) ==
    IF bundle = <<>> THEN label
    ELSE LET instr == trace[Head(bundle)]
         IN FailLabelOf(Tail(bundle), IF IsGuard(instr) THEN instr.failLabel ELSE label)

\* A slip for line 81: every instruction that is not a guard is kept.
InstrsOfAll(bundle) == SelectSeq(bundle, LAMBDA n : ~IsGuard(trace[n]))

\* Lines 81-83: the instructions kept, each held by reference (its node).
InstrsOf(bundle) ==
    SelectSeq(bundle, LAMBDA n : ~IsGuard(trace[n]) /\ HasDest(trace[n]))

\* toGroup (lines 66-97) on a bundle without a Group.
toGroup(bundle) ==
    [conds |-> CondsOf(bundle), instrs |-> InstrsOf(bundle),
     failLabel |-> FailLabelOf(bundle, "")]

----------------------------------------------------------------------------
\* listSchedule (lines 100-152).

\* The validity predicates explored, by the answers they may give for a
\* bundle: any predicate at all, a predicate that accepts every candidate
\* offered to an empty bundle, and the predicate that accepts exactly then.
ValidAnswers(policy, bundle) ==
    CASE policy = "any" -> BOOLEAN
      [] policy = "acceptsIfEmpty" -> IF bundle = <<>> THEN {TRUE} ELSE BOOLEAN
      [] policy = "onlyIfEmpty" -> {bundle = <<>>}

\* Groups a run may build before the exploration leaves it: a predicate that
\* rejects closes one (empty) Group after the other.
MaxRounds == MaxLen

\* A slip for lines 108-113: every node is added to the queue.
SeedEvery(ss) == ss

\* Lines 108-113: the nodes of dag.succs without predecessors.
Seed(ss) == SelectSeq(ss, LAMBDA n : Len(preds[n]) = 0)

\* Lines 105-123: the queue is seeded, the run's state is set up.
ListScheduleCall ==
    /\ pc \in {"built", "prioritised"}
    /\ queue' = Seed(startSuccs)
    /\ scheduled' = {}
    /\ toUpdate' = <<>>
    /\ currentGroup' = <<>>
    /\ schedule' = <<>>
    /\ pc' = "schedule"
    /\ UNCHANGED <<trace, dag, i, startSuccs, succs, preds, priority, written, read,
                   stack, valid, commitLog, thrown>>

\* A slip for line 134: every successor of a committed node is released.
ReleasedAll(node, sched) == succs[node]

\* Line 134: the successors of a committed node whose preds are all scheduled.
Released(node, sched) ==
    SelectSeq(succs[node], LAMBDA child : subset(preds[child], sched))

\* A slip for line 134: a released successor goes straight to the queue.
CommitQueuesEager(q, upd, node, released) ==
    [queue |-> SetAddAll(SetDelete(q, node), released), toUpdate |-> upd]

\* Lines 126 and 133-135: the queue loses the node taken, and the deferred
\* set receives the successors it releases.
CommitQueues(q, upd, node, released) ==
    [queue |-> SetDelete(q, node), toUpdate |-> SetAddAll(upd, released)]

\* Lines 126-135: the next node is accepted into the current bundle.  (The
\* queue never holds the start node, so line 127 tests only for emptiness.)
ListScheduleCommit ==
    /\ pc = "schedule"
    /\ queue # <<>>
    /\ LET node == PQNext(queue)
           sched == scheduled \cup {node}
       IN /\ TRUE \in ValidAnswers(valid, currentGroup)
          /\ queue' = CommitQueues(queue, toUpdate, node, Released(node, sched)).queue
          /\ currentGroup' = Append(currentGroup, node)
          /\ scheduled' = sched
          /\ toUpdate' = CommitQueues(queue, toUpdate, node, Released(node, sched)).toUpdate
          /\ commitLog' = Append(commitLog, [node |-> node, group |-> Len(schedule) + 1])
    /\ UNCHANGED <<trace, dag, i, startSuccs, succs, preds, priority, written, read,
                   stack, schedule, valid, thrown, pc>>

\* A slip for line 138: the rejected node is not kept.
DeferredDropped(upd, node) == upd

\* Line 138: the deferred set once the rejected node is added.
Deferred(upd, node) == SetAdd(upd, node)

\* Lines 126-129 and 136-139: the next node is rejected and deferred.
ListScheduleDefer ==
    /\ pc = "schedule"
    /\ queue # <<>>
    /\ LET node == PQNext(queue)
       IN /\ FALSE \in ValidAnswers(valid, currentGroup)
          /\ queue' = SetDelete(queue, node)
          /\ toUpdate' = Deferred(toUpdate, node)
    /\ UNCHANGED <<trace, dag, i, startSuccs, succs, preds, priority, written, read,
                   stack, scheduled, currentGroup, schedule, valid, commitLog,
                   thrown, pc>>

\* A slip for line 146: the test is made on the set just cleared.
isEmptyOfCleared(q) == TRUE

\* PQueue.isEmpty (lines 21-23).
isEmpty(q) == Len(q) = 0

\* Lines 140-148 (and 151): the queue is empty, the bundle is closed.
ListScheduleClose ==
    /\ pc = "schedule"
    /\ queue = <<>>
    /\ Len(schedule) < MaxRounds
    /\ IF HasNested(currentGroup)
       THEN /\ thrown' = "Cannot nest groups"
            /\ pc' = "error"
            /\ UNCHANGED <<queue, toUpdate, currentGroup, schedule>>
       ELSE /\ schedule' = Append(schedule, toGroup(currentGroup))
            /\ queue' = SetAddAll(queue, toUpdate)
            /\ toUpdate' = <<>>
            /\ IF isEmpty(SetAddAll(queue, toUpdate))
               THEN pc' = "done" /\ UNCHANGED currentGroup
               ELSE currentGroup' = <<>> /\ UNCHANGED pc
            /\ UNCHANGED thrown
    /\ UNCHANGED <<trace, dag, i, startSuccs, succs, preds, priority, written, read,
                   stack, scheduled, valid, commitLog>>

----------------------------------------------------------------------------
\* The pipeline dataflow, assignDagPriority (which the caller may leave out),
\* listSchedule, over every trace of at most MaxLen instructions.

Traces == UNION {[1..n -> Instructions] : n \in 0..MaxLen}

InitState(policy) ==
    /\ trace \in Traces
    /\ i = 0
    /\ startSuccs = <<>>
    /\ succs = [n \in Nodes |-> <<>>]
    /\ preds = [n \in Nodes |-> <<>>]
    /\ priority = <<>>
    /\ written = <<>>
    /\ read = <<>>
    /\ stack = <<>>
    /\ queue = <<>>
    /\ scheduled = {}
    /\ toUpdate = <<>>
    /\ currentGroup = <<>>
    /\ schedule = <<>>
    /\ valid = policy
    /\ commitLog = <<>>
    /\ thrown = ""
    /\ pc = "dataflow"

\* The pipeline: priorities are assigned from the start node.
InitWith(policy) == InitState(policy) /\ dag = Start

\* Priorities are assigned from any node of the graph.
InitAnyDag(policy) == InitState(policy) /\ dag \in {Start} \cup Nodes

Init == InitWith("any")

Next ==
    \/ DataflowStep
    \/ DataflowReturn
    \/ AssignDagPriorityCall
    \/ AssignDagPriorityDescend
    \/ AssignDagPriorityReturn
    \/ ListScheduleCall
    \/ ListScheduleCommit
    \/ ListScheduleDefer
    \/ ListScheduleClose

Spec == Init /\ [][Next]_vars

\* The same pipeline with a predicate that accepts into an empty bundle.
SpecAcceptsIfEmpty == InitWith("acceptsIfEmpty") /\ [][Next]_vars

\* The same pipeline with the predicate that accepts only into an empty bundle.
SpecOnlyIfEmpty == InitWith("onlyIfEmpty") /\ [][Next]_vars

\* listSchedule on a graph where assignDagPriority was run on any one node.
SpecAnyDag == InitAnyDag("acceptsIfEmpty") /\ [][Next]_vars

----------------------------------------------------------------------------
\* Vocabulary of the properties.

\* The graph has the edge a -> b.
Edge(a, b) == b \in Range(succs[a]) /\ a \in Range(preds[b])

Reads(n, X) == HasArgs(trace[n]) /\ X \in Range(trace[n].args)
Writes(n, X) == HasDest(trace[n]) /\ trace[n].dest = X

\* The instructions before position n that write X.
WritersBefore(X, n) == {a \in 1..(n - 1) : Writes(a, X)}

\* The nearest of them (there is one).
NearestWriter(X, n) ==
    CHOOSE a \in WritersBefore(X, n) : \A a2 \in WritersBefore(X, n) : a2 <= a

TraceHasGroup == \E n \in Nodes : IsGroup(trace[n])

Committed(n) == \E k \in DOMAIN commitLog : commitLog[k].node = n

\* The index of the Group of a committed node.
GroupIndex(n) == commitLog[CHOOSE k \in DOMAIN commitLog : commitLog[k].node = n].group

InListSchedule == pc \in {"schedule", "done"} \/ thrown = "Cannot nest groups"

\* assignDagPriority(start) has run to completion.
Prioritised == HasPriority(Start)

\* Number of nodes on the longest path from n along edges to later nodes.
RECURSIVE Height(_)
Height(n) ==
    LET below == {Height(b) : b \in {c \in Range(succs[n]) : c > n}}
    IN 1 + (IF below = {} THEN 0 ELSE CHOOSE h \in below : \A h2 \in below : h2 <= h)

----------------------------------------------------------------------------
\* C1: with a predicate that accepts every candidate offered to an empty
\* bundle, the pipeline dataflow, assignDagPriority, listSchedule ends by
\* returning a schedule, and every instruction with a destination is in the
\* instrs of one of its Groups.  Stated for the traces without a Group, the
\* input the materializer refuses: the run throws nothing, and the schedule
\* it returns holds every such instruction.
C1_NoInstructionLost ==
    ~TraceHasGroup =>
        /\ thrown = ""
        /\ (pc = "done" /\ Prioritised) =>
               \A n \in Nodes : HasDest(trace[n]) =>
                   \E g \in DOMAIN schedule : n \in Range(schedule[g].instrs)

\* C2: for every edge A -> B of the graph, B is committed only once A is,
\* and the Group of A has an index less than or equal to that of B.
C2_EdgesOrdered ==
    InListSchedule =>
        \A a \in Nodes : \A b \in Range(succs[a]) :
            Committed(b) => Committed(a) /\ GroupIndex(a) <= GroupIndex(b)

\* C2's case: a schedule was returned for a graph with an edge.
C2_Witness ==
    /\ pc = "done"
    /\ \E a \in Nodes : \E b \in Range(succs[a]) : Committed(a) /\ Committed(b)

\* C3: every edge of the graph goes from a node to a node created strictly
\* later, so the graph is acyclic.
C3_EdgesGoForward ==
    \A a \in Nodes : (\A b \in Range(succs[a]) : a < b) /\ (\A b \in Range(preds[a]) : b < a)

\* C4: every instruction B that reads X, its own destination included, has
\* the edge A -> B from the nearest instruction A before it that writes X.
C4_TrueDependence ==
    \A b \in 1..i : \A X \in Idents :
        (Reads(b, X) /\ WritersBefore(X, b) # {}) => Edge(NearestWriter(X, b), b)

\* C5: every instruction C that writes X has the edge R -> C from every
\* instruction R before it that reads X after the previous write of X (or
\* from the start of the trace if there is none).
C5_AntiDependence ==
    \A c \in 1..i : \A X \in Idents : \A r \in 1..(c - 1) :
        (/\ Writes(c, X)
         /\ Reads(r, X)
         /\ (WritersBefore(X, c) # {} => r > NearestWriter(X, c)))
        => Edge(r, c)

\* C5's case: the graph is built for a trace with a write of X, a later
\* read of X and a still later write of X.
C5_Witness ==
    /\ pc = "built"
    /\ \E c \in Nodes : \E X \in Idents : \E r \in 1..(c - 1) :
        /\ Writes(c, X) /\ Reads(r, X)
        /\ WritersBefore(X, c) # {}
        /\ r > NearestWriter(X, c)

\* C6: no node is committed twice: a scheduled node is in neither the queue
\* nor the deferred set, and no instruction occurs twice in the bundles.
C6_NoDoubleCommit ==
    /\ \A k1, k2 \in DOMAIN commitLog :
           commitLog[k1].node = commitLog[k2].node => k1 = k2
    /\ \A n \in scheduled : n \notin Range(queue) /\ n \notin Range(toUpdate)
    /\ \A g1, g2 \in DOMAIN schedule :
           \A j1 \in DOMAIN schedule[g1].instrs : \A j2 \in DOMAIN schedule[g2].instrs :
               schedule[g1].instrs[j1] = schedule[g2].instrs[j2] => (g1 = g2 /\ j1 = j2)

\* C6's case: a node with two predecessors was committed, one of its
\* predecessors in an earlier round than the other.
C6_Witness ==
    /\ pc = "done"
    /\ \E n \in Nodes : \E a, b \in Range(preds[n]) :
        /\ Committed(n) /\ Committed(a) /\ Committed(b)
        /\ GroupIndex(a) < GroupIndex(b)

\* C7: the start node has one successor per instruction of the trace, each
\* the node of another position, whatever the instruction holds.
C7_StartRegistersEveryInstruction ==
    /\ Len(startSuccs) = i
    /\ Range(startSuccs) = 1..i
    /\ pc # "dataflow" => Len(startSuccs) = Len(trace)

\* C7's case: the graph is built for a trace with an instruction that has
\* neither a destination nor arguments.
C7_Witness ==
    /\ pc = "built"
    /\ Len(trace) >= 2
    /\ \E n \in Nodes : ~HasDest(trace[n]) /\ ~HasArgs(trace[n])

\* C8: with the predicate that accepts only into an empty bundle, the
\* schedule listSchedule returns has as many Groups as the trace has
\* instructions.  Stated for the non-empty traces.
C8_OneGroupPerInstruction ==
    (pc = "done" /\ trace # <<>>) => Len(schedule) = Len(trace)

\* C9: a bundle that holds a Group is never turned into a Group: the run
\* ends with 'Cannot nest groups' at the first bundle boundary after the
\* Group was committed, and a run over a trace with a Group returns nothing.
C9_NestedGroupFails ==
    /\ \A k \in DOMAIN commitLog :
           IsGroup(trace[commitLog[k].node]) => commitLog[k].group = Len(schedule) + 1
    /\ thrown = "Cannot nest groups" =>
           /\ pc = "error"
           /\ \E k \in DOMAIN currentGroup : IsGroup(trace[currentGroup[k]])
    /\ pc = "done" => ~TraceHasGroup

\* C9's case: the run has ended in the error, after an earlier bundle was
\* turned into a Group.
C9_Witness ==
    /\ thrown = "Cannot nest groups"
    /\ Len(schedule) >= 1

\* C10: once assignDagPriority(start) has returned, the priority of a node
\* is the number of nodes on the longest path from it: 1 without successors,
\* else 1 more than the greatest priority of its successors; so priority
\* decreases strictly along every edge.
C10_PriorityIsHeight ==
    Prioritised =>
        \A n \in Nodes :
            /\ HasPriority(n)
            /\ priority[n] = Height(n)
            /\ (succs[n] = <<>> => priority[n] = 1)
            /\ \A b \in Range(succs[n]) : priority[n] > priority[b]
            /\ (succs[n] # <<>> =>
                   \E b \in Range(succs[n]) : priority[n] = 1 + priority[b])

\* C10's case: priorities are assigned on a graph where a node's first
\* successor lies deeper than its last.
C10_Witness ==
    /\ pc = "prioritised"
    /\ \E n \in Nodes :
        /\ Len(succs[n]) >= 2
        /\ priority[succs[n][1]] > priority[succs[n][Len(succs[n])]]

\* C11: whenever listSchedule removes a node from a queue in which every
\* node has a priority, the priority of the removed node is at least the
\* priority of every node that stays in the queue.
C11_HighestPriorityFirst ==
    [][(/\ pc = "schedule"
        /\ queue # <<>>
        /\ Len(queue') < Len(queue)
        /\ \A n \in Range(queue) : HasPriority(n))
       => \A n \in Range(queue) \ Range(queue') : \A m \in Range(queue') :
              priority[n] >= priority[m]]_vars

\* C11's case: the first node committed was not the first of the queue: a
\* later node of the queue had a greater priority.
C11_Witness ==
    /\ pc = "schedule"
    /\ commitLog # <<>>
    /\ \E m \in Range(queue) \cup Range(toUpdate) :
        /\ HasPriority(m) /\ HasPriority(commitLog[1].node)
        /\ Len(preds[m]) = 0
        /\ m < commitLog[1].node
        /\ priority[m] < priority[commitLog[1].node]

\* C12: whenever the queue holds a node with a priority and a node without,
\* the node PQueue.next removes has a priority.
C12_UnprioritisedLoses ==
    [][(/\ pc = "schedule"
        /\ Len(queue') < Len(queue)
        /\ \E n \in Range(queue) : HasPriority(n)
        /\ \E n \in Range(queue) : ~HasPriority(n))
       => \A n \in Range(queue) \ Range(queue') : HasPriority(n)]_vars

\* The edge a -> b is a true dependence: b reads an identifier whose
\* nearest writer before b is a.
TrueDependence(a, b) ==
    \E X \in Idents :
        Reads(b, X) /\ WritersBefore(X, b) # {} /\ NearestWriter(X, b) = a

\* The edge a -> b is an anti dependence: b writes an identifier that a,
\* before b, read no earlier than the last write of it before b (a itself
\* may be that write: it is recorded as a reader after its write).
AntiDependence(a, b) ==
    \E X \in Idents :
        /\ Writes(b, X) /\ Reads(a, X) /\ a < b
        /\ (WritersBefore(X, b) # {} => a >= NearestWriter(X, b))

\* C13: every edge of the graph is a true dependence or an anti dependence;
\* the readers of X are forgotten when X is written.  Stated for the edges
\* between two different nodes.
C13_OnlyJustifiedEdges ==
    \A a \in Nodes : \A b \in Range(succs[a]) :
        a # b => TrueDependence(a, b) \/ AntiDependence(a, b)

\* C14: a rejection leaves the current bundle, the scheduled set and the
\* schedule as they are and moves the node from the queue to the end of the
\* deferred set; a deferred node comes back into the queue at the next
\* bundle boundary and not before.
C14_RejectionOnlyDefers ==
    [][/\ (/\ pc = "schedule"
           /\ Len(queue') < Len(queue)
           /\ commitLog' = commitLog)
          => /\ currentGroup' = currentGroup
             /\ scheduled' = scheduled
             /\ schedule' = schedule
             /\ \E n \in Range(queue) :
                    /\ n \notin Range(queue')
                    /\ n \notin Range(toUpdate)
                    /\ Range(queue') = Range(queue) \ {n}
                    /\ toUpdate' = Append(toUpdate, n)
       /\ \A n \in Range(toUpdate) :
              /\ n \in Range(queue') => Len(schedule') = Len(schedule) + 1
              /\ Len(schedule') = Len(schedule) + 1 => n \in Range(queue')
              /\ n \notin scheduled']_vars

\* C14's case: a node that was ready from the start, and so rejected in the
\* first round, was committed in a later one.
C14_Witness ==
    /\ pc = "done"
    /\ \E k \in DOMAIN commitLog :
        /\ commitLog[k].group >= 2
        /\ Len(preds[commitLog[k].node]) = 0

\* The Group of an empty bundle.
EmptyGroup == [conds |-> <<>>, instrs |-> <<>>, failLabel |-> ""]

\* C15: as long as the predicate has rejected every candidate, a run of
\* listSchedule on a graph with a node without predecessors has not ended:
\* it is still in its loop, every Group closed so far is empty, the nodes
\* without predecessors are all in the queue or the deferred set, and the
\* loop has a next step (until the exploration leaves the run).
C15_NoProgressGuard ==
    (InListSchedule /\ commitLog = <<>> /\ Seed(startSuccs) # <<>>) =>
        /\ pc = "schedule"
        /\ thrown = ""
        /\ \A g \in DOMAIN schedule : schedule[g] = EmptyGroup
        /\ Range(queue) \cup Range(toUpdate) = Range(Seed(startSuccs))
        /\ Range(queue) \cap Range(toUpdate) = {}
        /\ Len(schedule) < MaxRounds =>
               ENABLED (ListScheduleDefer \/ ListScheduleClose)

\* C15's case: two rounds were closed without a single commit, and the
\* nodes are back in the queue.
C15_Witness ==
    /\ pc = "schedule"
    /\ commitLog = <<>>
    /\ Len(schedule) >= 2
    /\ Len(queue) >= 2

\* The bundle from which Group g of the schedule was built: the nodes
\* committed while g was being filled, in commit order.
RECURSIVE BundleOf(_, _)
BundleOf(g, log) ==
    IF log = <<>> THEN <<>>
    ELSE (IF Head(log).group = g THEN <<Head(log).node>> ELSE <<>>)
         \o BundleOf(g, Tail(log))

\* b is the sequence a with its elements outside keep struck out.
RECURSIVE IsSubsequenceKeeping(_, _, _)
IsSubsequenceKeeping(b, a, keep) ==
    IF a = <<>> THEN b = <<>>
    ELSE IF Head(a) \in keep
         THEN b # <<>> /\ Head(b) = Head(a)
              /\ IsSubsequenceKeeping(Tail(b), Tail(a), keep)
         ELSE IsSubsequenceKeeping(b, Tail(a), keep)

DestBearing == {n \in Nodes : ~IsGroup(trace[n]) /\ "dest" \in DOMAIN trace[n]}

GuardNodes == {n \in Nodes : ~IsGroup(trace[n]) /\ trace[n].op = "trace"}

\* C16: every Group of the schedule holds, as instrs, exactly the
\* destination-bearing instructions of its bundle in bundle order; no
\* effect instruction and no guard is among them, and conds and failLabel
\* come from the guards of the bundle alone.
C16_InstrsAreDestBearing ==
    \A g \in DOMAIN schedule :
        LET bundle == BundleOf(g, commitLog)
            guards == SelectSeq(bundle, LAMBDA n : n \in GuardNodes)
        IN /\ IsSubsequenceKeeping(schedule[g].instrs, bundle, DestBearing)
           /\ \A k \in DOMAIN schedule[g].instrs :
                  /\ schedule[g].instrs[k] \notin GuardNodes
                  /\ trace[schedule[g].instrs[k]] \in Constants \cup ValueOperations
           /\ Len(schedule[g].conds) = Len(guards)
           /\ \A k \in DOMAIN guards :
                  schedule[g].conds[k] = trace[guards[k]].effect.args[1]
           /\ schedule[g].failLabel =
                  IF guards = <<>> THEN "" ELSE trace[guards[Len(guards)]].failLabel

\* C16's case: a Group was built from a bundle holding a destination-bearing
\* instruction, an effect instruction and a guard.
C16_Witness ==
    \E g \in DOMAIN schedule :
        LET bundle == BundleOf(g, commitLog)
        IN /\ Range(bundle) \cap DestBearing # {}
           /\ Range(bundle) \cap GuardNodes # {}
           /\ \E n \in Range(bundle) : trace[n] \in EffectOperations
           /\ Len(schedule[g].instrs) = 1

\* C17: during listSchedule every node of the queue or of the deferred set
\* is uncommitted and has all its predecessors in the scheduled set; so
\* the node handed to the validity predicate has them too.
C17_ReadyNodesOnly ==
    InListSchedule =>
        /\ \A n \in Range(queue) \cup Range(toUpdate) :
               /\ n \notin scheduled
               /\ ~Committed(n)
               /\ Range(preds[n]) \subseteq scheduled
        /\ scheduled = {commitLog[k].node : k \in DOMAIN commitLog}
        /\ (pc = "schedule" /\ queue # <<>>) =>
               Range(preds[PQNext(queue)]) \subseteq scheduled

\* C17's case: a node with a predecessor waits in the queue or in the
\* deferred set after the commit of that predecessor.
C17_Witness ==
    /\ pc = "schedule"
    /\ \E n \in Range(queue) \cup Range(toUpdate) :
           /\ Len(preds[n]) >= 2
           /\ Range(preds[n]) \subseteq scheduled

\* C18: whatever the validity predicate answers, for every edge A -> B of
\* the graph a committed B lies in a Group of strictly greater index than
\* the Group of A; no node of the queue has a predecessor in the bundle
\* being filled.
C18_NeverCoIssued ==
    InListSchedule =>
        /\ \A a \in Nodes : \A b \in Range(succs[a]) :
               Committed(b) => Committed(a) /\ GroupIndex(a) < GroupIndex(b)
        /\ pc = "schedule" =>
               \A n \in Range(queue) : Range(preds[n]) \cap Range(currentGroup) = {}

\* C18's case: B was committed in the round after that of A, whose bundle
\* had taken a second node.
C18_Witness ==
    /\ pc = "done"
    /\ \E a \in Nodes : \E b \in Range(succs[a]) :
           /\ Committed(a) /\ Committed(b)
           /\ GroupIndex(b) = GroupIndex(a) + 1
           /\ Len(BundleOf(GroupIndex(a), commitLog)) >= 2

\* The place of a committed node in the commit order.
CommitPosition(n) == CHOOSE k \in DOMAIN commitLog : commitLog[k].node = n

\* C19: two committed instructions that write the same identifier keep
\* their trace order: the later of the trace is in no earlier Group, and in
\* the same Group it comes after the other.
C19_WritesKeepOrder ==
    InListSchedule =>
        \A w1 \in Nodes : \A w2 \in Nodes : \A X \in Idents :
            (/\ w1 < w2 /\ Writes(w1, X) /\ Writes(w2, X)
             /\ Committed(w1) /\ Committed(w2)) =>
                /\ GroupIndex(w1) <= GroupIndex(w2)
                /\ GroupIndex(w1) = GroupIndex(w2) =>
                       CommitPosition(w1) < CommitPosition(w2)

\* The guards of the trace that extract a condition, and the identifier
\* each tests.
BranchGuards == {n \in GuardNodes : trace[n].effect.op = "br"}

Tested(n) == trace[n].effect.args[1]

\* C20: a committed guard that tests X, written earlier in the trace, lies
\* in a Group of strictly greater index than the Group of the nearest
\* writer of X before it, which is committed by then.
C20_GuardAfterTestedValue ==
    InListSchedule =>
        \A b \in BranchGuards :
            (Committed(b) /\ WritersBefore(Tested(b), b) # {}) =>
                /\ Committed(NearestWriter(Tested(b), b))
                /\ GroupIndex(NearestWriter(Tested(b), b)) < GroupIndex(b)

====
